---- MODULE Spec2Model ----
(***************************************************************************)
(* A model of the CORALL vessel simulation: the step loop of               *)
(* run_simulation (src/src/core/simulation.py), the decision hook          *)
(* (run_colm, MultiLLMCOLREGSInterpreter), extract_kdir_from_response,     *)
(* the scenario catalog (imazu_cases.py) and the reactive avoidance field  *)
(* (reactive_avoidance.py).                                                *)
(*                                                                         *)
(* Units.  Lengths are in units of 100 m, so the influence radii           *)
(* a = 600/1852 nmi and b = 1200/1852 nmi are 6 and 12.  Times are in      *)
(* quarter seconds (every modelled dt and sim_time is a dyadic rational,   *)
(* so sim_time/dt is exact in binary floating point).  Angles are in       *)
(* units of 45 degrees.  Real-valued results are exact rationals kept as   *)
(* integer numerators over a stated denominator.                           *)
(***************************************************************************)
EXTENDS Integers, Sequences, FiniteSets, TLC

VARIABLES
    pc,           \* position in run_simulation: "start", "loop", "done", "error" ("idle" outside a run)
    args,         \* the argparse namespace: case_number, sim_time, dt, no_animation, llm, llm_provider
    env,          \* the process environment the hook reads: LLM_AVAILABLE, provider availability
    N,            \* N = round(sim_time / dt)
    i,            \* number of completed loop iterations = index of the next iteration
    t,            \* simulation time t (quarter seconds); time.append(t)
    X,            \* own-ship state X, kept as [x, y, psi]
    Xob, Yob,     \* current obstacle positions
    Vob, psiob,   \* obstacle speeds and headings
    Kdir,         \* the array Kdir
    row,          \* the entries written at the last completed iteration (index i-1) of the per-step arrays
    decision,     \* the last string returned by run_colm
    outcome,      \* which branch of the hook produced `decision`
    colmCalls,    \* the step indices at which run_colm was invoked, in order
    warnings,     \* number of times the "LLM requested but ... not available" warning was printed
    call,         \* a call of one of the pure functions: [fn, in, returned, out]
    results       \* when followed: every row of the per-step arrays of the run in progress, and what completed runs returned

vars == <<pc, args, env, N, i, t, X, Xob, Yob, Vob, psiob, Kdir, row,
          decision, outcome, colmCalls, warnings, call, results>>

runVars == <<pc, args, env, N, i, t, X, Xob, Yob, Vob, psiob, Kdir, row,
             decision, outcome, colmCalls, warnings, results>>

None == "None"

(***************************************************************************)
(* Strings.  Python's str.lower() and the `in` substring test.             *)
(***************************************************************************)
UpperCase == "ABCDEFGHIJKLMNOPQRSTUVWXYZ"
LowerCase == "abcdefghijklmnopqrstuvwxyz"

UpperChars == {SubSeq(UpperCase, k, k) : k \in 1..Len(UpperCase)}

LowerOf ==
    [c \in UpperChars |->
        LET k == CHOOSE k \in 1..Len(UpperCase) : SubSeq(UpperCase, k, k) = c
        IN  SubSeq(LowerCase, k, k)]

LowerChar(c) == IF c \in UpperChars THEN LowerOf[c] ELSE c

\* response.lower(): every character lower-cased, halves concatenated.
RECURSIVE StrLower(_)
StrLower(s) ==
    IF Len(s) = 0 THEN s
    ELSE IF Len(s) = 1 THEN LowerChar(s)
    ELSE LET h == Len(s) \div 2
         IN  StrLower(SubSeq(s, 1, h)) \o StrLower(SubSeq(s, h + 1, Len(s)))

\* sub in s
StrIn(sub, s) ==
    \E k \in 1..(Len(s) - Len(sub) + 1) : SubSeq(s, k, k + Len(sub) - 1) = sub

(***************************************************************************)
(* extract_kdir_from_response (simulation.py 30-45).                       *)
(***************************************************************************)
extract_kdir_from_response(response) ==
    LET response_lower == StrLower(response)
    IN  IF \/ StrIn("turn starboard", response_lower)
           \/ StrIn("alter course to starboard", response_lower)
           \/ StrIn("starboard", response_lower)
        THEN 1
        ELSE IF \/ StrIn("turn port", response_lower)
                \/ StrIn("alter course to port", response_lower)
                \/ StrIn("port", response_lower)
        THEN -1
        ELSE 0

(***************************************************************************)
(* Arithmetic helpers.                                                     *)
(***************************************************************************)
Abs(n) == IF n < 0 THEN -n ELSE n

RECURSIVE SeqSum(_)
SeqSum(s) == IF Len(s) = 0 THEN 0 ELSE Head(s) + SeqSum(Tail(s))

\* np.sqrt(dx**2 + dy**2): the root lies between max(|dx|, |dy|) and
\* |dx| + |dy|; it is exact on the offsets the model produces (one of dx, dy
\* is zero).
RECURSIVE SqrtSearch(_, _, _)
SqrtSearch(n, lo, hi) ==
    IF lo >= hi THEN lo
    ELSE LET mid == (lo + hi + 1) \div 2
         IN  IF mid * mid <= n THEN SqrtSearch(n, mid, hi)
                               ELSE SqrtSearch(n, lo, mid - 1)

Hypot(dx, dy) ==
    SqrtSearch(dx * dx + dy * dy,
               IF Abs(dx) >= Abs(dy) THEN Abs(dx) ELSE Abs(dy),
               Abs(dx) + Abs(dy))

\* np.arctan2(dy, dx) in units of 45 degrees, on the eight compass
\* directions and at the origin (arctan2(0, 0) = 0).
ArcTan2(dy, dx) ==
    IF dy = 0 THEN (IF dx >= 0 THEN 0 ELSE 4)
    ELSE IF dx = 0 THEN (IF dy > 0 THEN 2 ELSE -2)
    ELSE IF dx > 0 THEN (IF dy > 0 THEN 1 ELSE -1)
    ELSE (IF dy > 0 THEN 3 ELSE -3)

(***************************************************************************)
(* zmf (reactive_avoidance.py 5-15).  The membership value of x is the     *)
(* rational zmf1(x, a, b) / ZmfDen(a, b).                                  *)
(***************************************************************************)
ZmfDen(a, b) == (b - a) * (b - a)

\* line 12: 1 - 2 * ((x - a) / (b - a))**2
ZmfLower_Linear(x, a, b) == ZmfDen(a, b) - 2 * (x - a) * (b - a)

ZmfLower(x, a, b) == ZmfDen(a, b) - 2 * (x - a) * (x - a)

\* line 14: 2 * ((x - b) / (b - a))**2
ZmfUpper(x, a, b) == 2 * (x - b) * (x - b)

zmf1(x, a, b) ==
    LET y0 == 0                                                    \* line 9
        y1 == IF x <= a THEN ZmfDen(a, b) ELSE y0                  \* line 10
        y2 == IF a < x /\ 2 * x < a + b THEN ZmfLower(x, a, b) ELSE y1   \* lines 11-12
        y3 == IF a + b <= 2 * x /\ x < b THEN ZmfUpper(x, a, b) ELSE y2  \* lines 13-14
    IN  y3

zmf(x, a, b) == [k \in DOMAIN x |-> zmf1(x[k], a, b)]

(***************************************************************************)
(* reactive_avoidance (reactive_avoidance.py 18-54).                       *)
(***************************************************************************)
RangeA == 6      \* a = 600.0/1852 nmi
RangeB == 12     \* b = 1200/1852 nmi

\* np.exp(-(bearing**2) / (2 * sig**2)) with sig = 80 degrees, for a bearing
\* of k * 45 degrees: exp(-81 k^2 / 512), in millionths.
ExpScale == 1000000
ExpTable == <<1000000, 853676, 531096, 240790, 79560, 19157, 3362, 430, 40, 3>>

BearingWeight_Positive(bearing) == ExpTable[Abs(bearing) + 1]

\* line 50: w_b = -np.exp(...)
BearingWeight(bearing) == -ExpTable[Abs(bearing) + 1]

\* The denominator of psi_oa and of the products w_r * w_b.
OaDen == ZmfDen(RangeA, RangeB) * ExpScale

\* The variant left commented out at line 45: distance_ob = sum(distance_ob).
\* The sum and the range weight computed from it are scalars, written here as
\* vectors of length one.
reactive_avoidance_SumDistance(x_ob, y_ob, x, y, psi) ==
    LET n == Len(x_ob)
        distance_ob == <<SeqSum([j \in 1..n |-> Hypot(x_ob[j] - x, y_ob[j] - y)])>>
        los_ob == [j \in 1..n |-> ArcTan2(y_ob[j] - y, x_ob[j] - x)]
        bearing_ob == [j \in 1..n |-> psi - los_ob[j]]
        w_r == zmf(distance_ob, RangeA, RangeB)
        w_b == [j \in 1..n |-> BearingWeight(bearing_ob[j])]
        psi_oa == SeqSum([j \in 1..n |-> w_r[1] * w_b[j]]) * 2
    IN  [psi_oa |-> psi_oa, w_b |-> w_b, w_r |-> w_r,
         distance_ob |-> distance_ob, bearing_ob |-> bearing_ob]

reactive_avoidance(x_ob, y_ob, x, y, psi) ==
    LET n == Len(x_ob)
        distance_ob == [j \in 1..n |->
            Hypot(x_ob[j] - x, y_ob[j] - y)]
        los_ob == [j \in 1..n |-> ArcTan2(y_ob[j] - y, x_ob[j] - x)]
        bearing_ob == [j \in 1..n |-> psi - los_ob[j]]
        w_r == zmf(distance_ob, RangeA, RangeB)
        w_b == [j \in 1..n |-> BearingWeight(bearing_ob[j])]
        psi_oa == SeqSum([j \in 1..n |-> w_r[j] * w_b[j]]) * 2
    IN  [psi_oa |-> psi_oa, w_b |-> w_b, w_r |-> w_r,
         distance_ob |-> distance_ob, bearing_ob |-> bearing_ob]

(***************************************************************************)
(* The decision hook's reply (multi_llm_decision.py).  The text a          *)
(* provider returns is outside the program: it is drawn from small sets    *)
(* built in the format the system prompt and validation.py expect.         *)
(***************************************************************************)
VALID_ACTIONS ==
    {"Stand on, no action", "Give-way, turn to starboard", "Give-way, turn to port"}

PromptActions == VALID_ACTIONS \cup {"Continue current maneuver"}

VALID_SITUATIONS == {"head-on", "overtaking", "crossing"}

Rules == {"14", "15"}

Explanations ==
    {"Low risk, target on port side",        \* validation.py 142
     "Target vessel on starboard bow",
     "Risk of collision exists",
     "Safe passing distance"}

\* "Rule X (situation type), Action: [action], explanation: [explanation]"
FormatReply(rule, situation, action, explanation) ==
    "Rule " \o rule \o " (" \o situation \o "), Action: " \o action
            \o ", explanation: " \o explanation

InvalidReply == "Invalid format response"     \* validation.py 147

\* str(e) of an exception raised by the provider's client.
ErrorTexts == {"Request timed out.", "Connection refused on port 443"}

ProviderNames == {"openai", "claude", "gemini"}

LowerChars26 == {SubSeq(LowerCase, k, k) : k \in 1..Len(LowerCase)}

UpperOf ==
    [c \in LowerChars26 |->
        LET k == CHOOSE k \in 1..Len(LowerCase) : SubSeq(LowerCase, k, k) = c
        IN  SubSeq(UpperCase, k, k)]

UpperChar(c) == IF c \in LowerChars26 THEN UpperOf[c] ELSE c

\* self.provider_name.upper()
RECURSIVE StrUpper(_)
StrUpper(s) ==
    IF Len(s) = 0 THEN s
    ELSE IF Len(s) = 1 THEN UpperChar(s)
    ELSE LET h == Len(s) \div 2
         IN  StrUpper(SubSeq(s, 1, h)) \o StrUpper(SubSeq(s, h + 1, Len(s)))

\* OpenAIProvider.generate_response / ClaudeProvider.generate_response, the
\* except branch (lines 80-81, 116-117).
ErrorReply(backend, e) ==
    (IF backend = "openai" THEN "OpenAI error: " ELSE "Claude error: ") \o e

\* make_decision lines 204-207: provider_info = f"[{self.provider_name.upper()}] "
TagReply(provider_name, response) == "[" \o StrUpper(provider_name) \o "] " \o response

(***************************************************************************)
(* Bounds of the pure-function specifications.                             *)
(***************************************************************************)
MaxDist == 14          \* largest distance drawn, beyond RangeB
MaxSpan == 6           \* largest b - a drawn for zmf
MaxObstacles == 2      \* largest obstacle count drawn for reactive_avoidance
MaxPsi == 4            \* |psi| <= MaxPsi * 45 degrees

NoCall == [fn |-> None, in |-> None, returned |-> FALSE, out |-> None]

\* The arrays are followed row by row (`row`); their whole contents are kept
\* only where two runs are compared.
NoResults == [followed |-> FALSE, arrays |-> <<>>, returned |-> <<>>]

RunIdle ==
    /\ pc = "idle" /\ args = None /\ env = None /\ N = 0 /\ i = 0 /\ t = 0
    /\ X = None /\ Xob = <<>> /\ Yob = <<>> /\ Vob = <<>>
    /\ psiob = <<>> /\ Kdir = <<>> /\ row = None /\ decision = None
    /\ outcome = None /\ colmCalls = <<>> /\ warnings = 0
    /\ results = NoResults

(***************************************************************************)
(* SpecExtract: extract_kdir_from_response applied to a reply.             *)
(***************************************************************************)
ExtractInputs ==
    LET tags == ProviderNames \cup {None}
        tagged(tag, r) == IF tag = None THEN r ELSE TagReply(tag, r)
    IN  {[kind |-> "reply", tag |-> tag, action |-> a, explanation |-> e,
          response |-> tagged(tag, FormatReply(ru, si, a, e))] :
            tag \in tags, ru \in Rules, si \in VALID_SITUATIONS,
            a \in PromptActions, e \in Explanations}
        \cup
        {[kind |-> "invalid", tag |-> tag, action |-> None, explanation |-> None,
          response |-> tagged(tag, InvalidReply)] : tag \in tags}
        \cup
        {[kind |-> "error", tag |-> tag, action |-> None, explanation |-> e,
          response |-> TagReply(tag, ErrorReply(b, e))] :
            tag \in ProviderNames, b \in {"openai", "claude"}, e \in ErrorTexts}
        \cup
        {[kind |-> "no_provider", tag |-> None, action |-> None, explanation |-> None,
          response |-> "No LLM provider available"]}

InitExtract ==
    /\ RunIdle
    /\ \E inp \in ExtractInputs :
           call = [fn |-> "extract_kdir_from_response", in |-> inp, returned |-> FALSE, out |-> None]

CallExtract ==
    /\ call.fn = "extract_kdir_from_response" /\ ~call.returned
    /\ call' = [call EXCEPT !.returned = TRUE, !.out = extract_kdir_from_response(call.in.response)]
    /\ UNCHANGED runVars

SpecExtract == InitExtract /\ [][CallExtract]_vars

(***************************************************************************)
(* SpecZmf: zmf applied to a vector of distances.                          *)
(***************************************************************************)
Vectors(S, n) == UNION {[1..k -> S] : k \in 0..n}

InitZmf ==
    /\ RunIdle
    /\ \E a \in {0, RangeA}, span \in 1..MaxSpan, x \in Vectors(0..MaxDist, 2) :
           call = [fn |-> "zmf", in |-> [x |-> x, a |-> a, b |-> a + span], returned |-> FALSE, out |-> None]

CallZmf ==
    /\ call.fn = "zmf" /\ ~call.returned
    /\ call' = [call EXCEPT !.returned = TRUE, !.out = zmf(call.in.x, call.in.a, call.in.b)]
    /\ UNCHANGED runVars

SpecZmf == InitZmf /\ [][CallZmf]_vars

(***************************************************************************)
(* SpecAvoid: reactive_avoidance applied to an obstacle configuration.     *)
(* Obstacles lie on the compass axes through the own ship, where np.sqrt   *)
(* and np.arctan2 are exact in the model's units.                          *)
(***************************************************************************)
DistGrid == {0, RangeA, 8, 9, RangeB, MaxDist}

AxisOffsets ==
    {<<d, 0>> : d \in DistGrid} \cup {<<-d, 0>> : d \in DistGrid}
    \cup {<<0, d>> : d \in DistGrid} \cup {<<0, -d>> : d \in DistGrid}

OwnPositions == {<<0, 0>>, <<5, -3>>}

InitAvoid ==
    /\ RunIdle
    /\ \E own \in OwnPositions, psi \in (-MaxPsi)..MaxPsi,
          off \in Vectors(AxisOffsets, MaxObstacles) :
           call = [fn |-> "reactive_avoidance",
                   in |-> [x_ob |-> [j \in DOMAIN off |-> own[1] + off[j][1]],
                           y_ob |-> [j \in DOMAIN off |-> own[2] + off[j][2]],
                           x |-> own[1], y |-> own[2], psi |-> psi],
                   returned |-> FALSE, out |-> None]

CallAvoid ==
    /\ call.fn = "reactive_avoidance" /\ ~call.returned
    /\ call' = [call EXCEPT !.returned = TRUE, !.out =
                   reactive_avoidance(call.in.x_ob, call.in.y_ob,
                                      call.in.x, call.in.y, call.in.psi)]
    /\ UNCHANGED runVars

SpecAvoid == InitAvoid /\ [][CallAvoid]_vars

(***************************************************************************)
(* ResponseValidator.parse_response (validation.py 14-55).  re.match with  *)
(* the pattern of line 33,                                                 *)
(*   Rule (\d+) \(([\w-]+)\), Action: ([\w\s,-]+), explanation: (.+)       *)
(* is matched by position: each group is the longest run of its character  *)
(* class, and the action group ends where ", explanation" begins because   *)
(* the ':' that follows is the first character outside its class.          *)
(***************************************************************************)
Digits == "0123456789"

DigitChars == {SubSeq(Digits, k, k) : k \in 1..Len(Digits)}             \* \d

LowerChars == {SubSeq(LowerCase, k, k) : k \in 1..Len(LowerCase)}

WordChars == UpperChars \cup LowerChars \cup DigitChars \cup {"_"}      \* \w

SpaceChars == {" ", "\t", "\n", "\r"}                                   \* \s

SituationClass == WordChars \cup {"-"}                                  \* [\w-]

ActionClass == WordChars \cup SpaceChars \cup {",", "-"}                \* [\w\s,-]

Ch(s, k) == SubSeq(s, k, k)

SetMin(S) == CHOOSE m \in S : \A n \in S : m <= n

SetMax(S) == CHOOSE m \in S : \A n \in S : m >= n

\* The last position of the longest run of characters of Class starting at
\* k (k - 1 when the run is empty).
RunEnd(s, k, Class) ==
    LET out == {j \in k..Len(s) : Ch(s, j) \notin Class}
    IN  IF out = {} THEN Len(s) ELSE SetMin(out) - 1

\* The last position of the longest run of characters other than newline.
LineEnd(s, k) ==
    LET out == {j \in k..Len(s) : Ch(s, j) = "\n"}
    IN  IF out = {} THEN Len(s) ELSE SetMin(out) - 1

\* str.strip()
StrStrip(s) ==
    LET ink == {j \in 1..Len(s) : Ch(s, j) \notin SpaceChars}
    IN  IF ink = {} THEN "" ELSE SubSeq(s, SetMin(ink), SetMax(ink))

StartsAt(s, k, lit) ==
    k + Len(lit) - 1 <= Len(s) /\ SubSeq(s, k, k + Len(lit) - 1) = lit

NoMatch == [matched |-> FALSE]

\* The group boundaries of the match, given the ends e1, e2, e3 of the
\* digit, situation and action-class runs.
MatchGroups(s, e1, e2, e3) ==
    LET p2 == e1 + 1 + Len(" (")
        p3 == e2 + 1 + Len("), Action: ")
        q  == e3 - Len(", explanation") + 1
        p4 == q + Len(", explanation: ")
    IN  IF /\ StartsAt(s, 1, "Rule ") /\ e1 >= 6
           /\ StartsAt(s, e1 + 1, " (") /\ e2 >= p2
           /\ StartsAt(s, e2 + 1, "), Action: ") /\ q > p3
           /\ StartsAt(s, q, ", explanation: ")
           /\ LineEnd(s, p4) >= p4
        THEN [matched |-> TRUE,
              rule |-> SubSeq(s, 6, e1),
              situation |-> SubSeq(s, p2, e2),
              action |-> SubSeq(s, p3, q - 1),
              explanation |-> SubSeq(s, p4, LineEnd(s, p4))]
        ELSE NoMatch

SituationEnd(s, e1) == RunEnd(s, e1 + 1 + Len(" ("), SituationClass)

ActionEnd(s, e2) == RunEnd(s, e2 + 1 + Len("), Action: "), ActionClass)

\* re.match(pattern, s), lines 33-34
re_match(s) ==
    IF ~StartsAt(s, 1, "Rule ") THEN NoMatch
    ELSE MatchGroups(s, RunEnd(s, 6, DigitChars),
                     SituationEnd(s, RunEnd(s, 6, DigitChars)),
                     ActionEnd(s, SituationEnd(s, RunEnd(s, 6, DigitChars))))

\* lines 42-43
ValidComponents_CaseSensitive(situation, action) ==
    situation \in VALID_SITUATIONS /\ StrStrip(action) \in VALID_ACTIONS

ValidComponents(situation, action) ==
    StrLower(situation) \in VALID_SITUATIONS /\ StrStrip(action) \in VALID_ACTIONS

\* The value None of Optional[ValidatedResponse].
ParseNone == [is_none |-> TRUE]

\* lines 36-51, given the match object
Validated(match) ==
    IF ~match.matched THEN ParseNone
    ELSE IF ~ValidComponents(match.situation, match.action) THEN ParseNone
    ELSE [is_none |-> FALSE,
          rule |-> match.rule,
          situation_type |-> StrLower(match.situation),
          action |-> StrStrip(match.action),
          explanation |-> StrStrip(match.explanation),
          is_fallback |-> FALSE]

parse_response(llm_response) == Validated(re_match(StrStrip(llm_response)))

(***************************************************************************)
(* SpecParse: parse_response applied to a response put together from       *)
(* parts, well-formed or not.                                              *)
(***************************************************************************)
ParseLeads == {"", "  ", "Decision: "}

ParseRuleWords == {"Rule", "rule"}

ParseRules == {"15", "7", "FB", ""}

ParseSituations == {"crossing", "Head-On", "unknown", "head on"}

ParseActions ==
    PromptActions \cup {"Stand on", " Give-way, turn to port ", "Give-way: turn to port"}

ParseLabels == {"explanation", "Explanation"}

ParseTexts ==
    {"Low risk, target on port side", "", "Fallback: Maintaining course due to safe conditions",
     "Risk of collision exists\nTurn early. "}

ParseInputs ==
    {[lead |-> ld, word |-> w, rule |-> ru, situation |-> si, action |-> a,
      label |-> lb, text |-> tx,
      response |-> ld \o w \o " " \o ru \o " (" \o si \o "), Action: " \o a
                      \o ", " \o lb \o ": " \o tx] :
        ld \in ParseLeads, w \in ParseRuleWords, ru \in ParseRules,
        si \in ParseSituations, a \in ParseActions, lb \in ParseLabels,
        tx \in ParseTexts}

InitParse ==
    /\ RunIdle
    /\ \E inp \in ParseInputs :
           call = [fn |-> "parse_response", in |-> inp, returned |-> FALSE, out |-> None]

CallParse ==
    /\ call.fn = "parse_response" /\ ~call.returned
    /\ call' = [call EXCEPT !.returned = TRUE, !.out = parse_response(call.in.response)]
    /\ UNCHANGED runVars

SpecParse == InitParse /\ [][CallParse]_vars

(***************************************************************************)
(* get_fallback_response (validation.py 57-95).  risk is in hundredths,    *)
(* distance in metres.                                                     *)
(***************************************************************************)
RiskThreshold == 70          \* risk > 0.7 (line 79)
DistanceThreshold == 300     \* distance < 300 (line 79)

\* Python's `a or b`: a unless it is falsy (None, the empty string).
PyOr_Second(a, b) == b

PyOr(a, b) == IF a \in {None, ""} THEN b ELSE a

get_fallback_response(risk, distance, rel_bearing, is_turning, initial_situation) ==
    IF is_turning
    THEN [is_none |-> FALSE,
          rule |-> "FB",
          situation_type |-> PyOr(initial_situation, "unknown"),
          action |-> "Give-way, turn to starboard",
          explanation |-> "Fallback: Continuing turn until safe conditions met",
          is_fallback |-> TRUE]
    ELSE IF risk > RiskThreshold /\ distance < DistanceThreshold
    THEN [is_none |-> FALSE,
          rule |-> "FB",
          situation_type |-> PyOr(initial_situation, "unknown"),
          action |-> PyOr("Give-way, turn to starboard", "Give-way, turn to port"),
          explanation |-> "Fallback: Emergency maneuver due to high risk and close range",
          is_fallback |-> TRUE]
    ELSE [is_none |-> FALSE,
          rule |-> "FB",
          situation_type |-> PyOr(initial_situation, "unknown"),
          action |-> "Stand on, no action",
          explanation |-> "Fallback: Maintaining course due to safe conditions",
          is_fallback |-> TRUE]

\* Lines 131-133: the fallback response as a string.
FormatFallback(fallback_response) ==
    "Rule " \o fallback_response.rule \o " (" \o fallback_response.situation_type \o "), "
        \o "Action: " \o fallback_response.action \o ", "
        \o "explanation: " \o fallback_response.explanation

(***************************************************************************)
(* SpecFallback: get_fallback_response applied to a situation, then its    *)
(* result formatted as enhanced_decision_making_llm formats it and parsed  *)
(* by parse_response.                                                      *)
(***************************************************************************)
FallbackRisks == {0, RiskThreshold, RiskThreshold + 1, 100}

FallbackDistances == {0, DistanceThreshold - 1, DistanceThreshold, DistanceThreshold + 1}

FallbackSituations == VALID_SITUATIONS \cup {None, ""}

InitFallback ==
    /\ RunIdle
    /\ \E r \in FallbackRisks, d \in FallbackDistances, b \in {-1, 0, 1},
          tn \in BOOLEAN, si \in FallbackSituations :
           call = [fn |-> "get_fallback_response",
                   in |-> [risk |-> r, distance |-> d, rel_bearing |-> b,
                           is_turning |-> tn, initial_situation |-> si],
                   returned |-> FALSE, out |-> None]

CallFallback ==
    /\ call.fn = "get_fallback_response" /\ ~call.returned
    /\ call' = [call EXCEPT !.returned = TRUE, !.out =
                   get_fallback_response(call.in.risk, call.in.distance,
                                         call.in.rel_bearing, call.in.is_turning,
                                         call.in.initial_situation)]
    /\ UNCHANGED runVars

FormatAndParse ==
    /\ call.fn = "get_fallback_response" /\ call.returned
    /\ call' = [fn |-> "parse_response",
                in |-> [fallback |-> call.out, response |-> FormatFallback(call.out)],
                returned |-> TRUE,
                out |-> parse_response(FormatFallback(call.out))]
    /\ UNCHANGED runVars

SpecFallback == InitFallback /\ [][CallFallback \/ FormatAndParse]_vars

(***************************************************************************)
(* enhanced_decision_making_llm (validation.py 97-135).  The function      *)
(* declares `global current_maneuver` and reads it on the fallback path;   *)
(* no statement of the module assigns it.  env holds the module's globals. *)
(***************************************************************************)
ModuleGlobals == [current_maneuver |-> [defined |-> FALSE]]

\* decision_making_llm returns the text of the LLM's reply.
LlmResponses ==
    {FormatReply("15", "crossing", a, "Risk of collision exists") : a \in PromptActions}
    \cup {FormatReply("14", "Head-On", "Give-way, turn to starboard", "Target vessel on starboard bow"),
          InvalidReply, "", "Rule 15 (crossing), Action: Stand on, no action"}

NotRaised == "returned"

enhanced_decision_making_llm(risk, distance, rel_bearing, llm_response, globals) ==
    IF parse_response(llm_response).is_none
    THEN IF ~globals.current_maneuver.defined
         THEN [raised |-> "NameError", value |-> None, warnings |-> 0]
         ELSE [raised |-> NotRaised,
               value |-> FormatFallback(
                   get_fallback_response(risk, distance, rel_bearing,
                                         globals.current_maneuver.is_turning,
                                         globals.current_maneuver.initial_situation)),
               warnings |-> 1]
    ELSE [raised |-> NotRaised, value |-> llm_response, warnings |-> 0]

InitEnhanced ==
    /\ pc = "idle" /\ args = None /\ env = ModuleGlobals /\ N = 0 /\ i = 0 /\ t = 0
    /\ X = None /\ Xob = <<>> /\ Yob = <<>> /\ Vob = <<>>
    /\ psiob = <<>> /\ Kdir = <<>> /\ row = None /\ decision = None
    /\ outcome = None /\ colmCalls = <<>> /\ warnings = 0
    /\ results = NoResults
    /\ \E r \in FallbackRisks, d \in FallbackDistances, b \in {-1, 0, 1},
          resp \in LlmResponses :
           call = [fn |-> "enhanced_decision_making_llm",
                   in |-> [risk |-> r, distance |-> d, rel_bearing |-> b,
                           llm_response |-> resp],
                   returned |-> FALSE, out |-> None]

CallEnhanced ==
    /\ call.fn = "enhanced_decision_making_llm" /\ ~call.returned
    /\ \E res \in {enhanced_decision_making_llm(call.in.risk, call.in.distance,
                                                call.in.rel_bearing,
                                                call.in.llm_response, env)} :
          /\ call' = [call EXCEPT !.returned = TRUE,
                                  !.out = [raised |-> res.raised, value |-> res.value]]
          /\ warnings' = warnings + res.warnings
    /\ UNCHANGED <<pc, args, env, N, i, t, X, Xob, Yob, Vob, psiob, Kdir, row,
                   decision, outcome, colmCalls, results>>

SpecEnhanced == InitEnhanced /\ [][CallEnhanced]_vars

(***************************************************************************)
(* The scenario catalog (imazu_cases.py).  The catalog is an opaque data   *)
(* source; the model keeps its shape (case key -> list of [[x, y], angle]) *)
(* with encounters scaled to the model's horizon: a head-on case, a        *)
(* two-vessel case (one crossing, one head-on), and every other case       *)
(* number absent.                                                          *)
(***************************************************************************)
obstacle_cases ==
    [c \in {1, 5} |->
        IF c = 1 THEN << <<24, 0, 4>> >>
                 ELSE << <<0, -16, 2>>, <<32, 0, 4>> >>]

\* get_obstacles: obstacle_cases.get(case_key, [])
get_obstacles(case_number) ==
    IF case_number \in DOMAIN obstacle_cases THEN obstacle_cases[case_number] ELSE <<>>

VobDefault == 1     \* Vob = [18.52] * len(obstacles), one length unit per time unit here

get_obstacle_data(case_number) ==
    LET obstacles == get_obstacles(case_number)
        n == Len(obstacles)
    IN  [Xob   |-> [j \in 1..n |-> obstacles[j][1]],
         Yob   |-> [j \in 1..n |-> obstacles[j][2]],
         Vob   |-> [j \in 1..n |-> VobDefault],
         psiob |-> [j \in 1..n |-> obstacles[j][3]]]

(***************************************************************************)
(* The collaborators of the step loop whose sources are not in the         *)
(* repository snapshot (planning, vessel_dynamics, integration,            *)
(* obstacle_sim, cpa_calculations, risk_calculations), modelled from the   *)
(* specification.                                                          *)
(***************************************************************************)
Cos(k) == CASE k = 0 -> 1 [] k = 4 \/ k = -4 -> -1 [] OTHER -> 0
Sin(k) == CASE k = 2 -> 1 [] k = -2 -> -1 [] OTHER -> 0

WaypointX == 741     \* Xwpt[1] = 40 nmi (line 149), to the nearest length unit

\* planning: the bearing from the current position to the active waypoint.
planning(x, y) == ArcTan2(0 - y, WaypointX - x)

\* vessel_dynamics: the own ship's response to the commanded moment is not
\* modelled; the state derivative is zero (the initial state is at rest).
vessel_dynamics(X_0) == [x |-> 0, y |-> 0, psi |-> 0]

\* integration: one forward-Euler step.
integration(X_0, X_dot, dt) ==
    [x |-> X_0.x + X_dot.x * dt, y |-> X_0.y + X_dot.y * dt,
     psi |-> X_0.psi + X_dot.psi * dt]

\* obstacle_sim: straight-line motion at constant speed and heading.
obstacle_sim(xob, yob, vob, psi_ob, dt) ==
    LET n == Len(xob)
        vx == [j \in 1..n |-> vob[j] * Cos(psi_ob[j])]
        vy == [j \in 1..n |-> vob[j] * Sin(psi_ob[j])]
    IN  [Xob |-> [j \in 1..n |-> xob[j] + vx[j] * dt],
         Yob |-> [j \in 1..n |-> yob[j] + vy[j] * dt],
         Vxob |-> vx, Vyob |-> vy]

\* cpa_calculations, the finite-difference variant: relative velocity from
\* the positions at steps i and i-1, TCPA from the projection of the relative
\* position on it, DCPA the perpendicular distance.  Zero relative speed
\* gives the sentinel TCPA = 0 and DCPA = current distance.
cpa_calculations(x, y, xp, yp, xo, yo, xop, yop, Ts) ==
    LET rx == xo - x
        ry == yo - y
        dx == (xo - xop) - (x - xp)
        dy == (yo - yop) - (y - yp)
        d2 == dx * dx + dy * dy
    IN  IF d2 = 0
        THEN [DCPA |-> Hypot(rx, ry), TCPA |-> 0, Vrel |-> 0]
        ELSE [DCPA |-> Abs(rx * dy - ry * dx) \div Hypot(dx, dy),
              TCPA |-> ((0 - (rx * dx + ry * dy)) * Ts) \div d2,
              Vrel |-> Hypot(dx, dy)]

\* cpa_calculations_0speed, the instantaneous-velocity variant: relative
\* velocity from the velocity components of own ship and obstacle.  Zero
\* relative speed gives the sentinel TCPA = 0 and DCPA = current distance.
cpa_calculations_0speed(x, y, xo, yo, vx, vy, vxo, vyo, dist) ==
    LET rx == xo - x
        ry == yo - y
        dx == vxo - vx
        dy == vyo - vy
        d2 == dx * dx + dy * dy
    IN  IF d2 = 0
        THEN [DCPA |-> dist, TCPA |-> 0, Vrel |-> 0]
        ELSE [DCPA |-> Abs(rx * dy - ry * dx) \div Hypot(dx, dy),
              TCPA |-> (0 - (rx * dx + ry * dy)) \div d2,
              Vrel |-> Hypot(dx, dy)]

\* risk_calculations: a scorer within the contract of section 4.5, in
\* percent: bounded by [0, 100], largest on a collision course that is
\* imminent, zero once the closest approach has passed or is far off.
risk_calculations(dcpa, tcpa, distance, vrel) ==
    IF distance = 0 THEN 100
    ELSE IF vrel = 0 \/ tcpa < 0 \/ dcpa >= RangeB THEN 0
    ELSE IF distance <= RangeB THEN 100 - (50 * dcpa) \div RangeB
    ELSE 50 - (50 * dcpa) \div RangeB

(***************************************************************************)
(* The decision hook: run_colm (simulation.py 47-88) and                   *)
(* MultiLLMCOLREGSInterpreter (multi_llm_decision.py 119-207).             *)
(***************************************************************************)
\* __init__ line 123: provider or os.getenv("LLM_PROVIDER", "openai")
provider_name(llm_provider, e) ==
    IF llm_provider # None THEN llm_provider ELSE e.LLM_PROVIDER

\* _initialize_provider, lines 129-161: the backend serving the calls, or None.
initialize_provider(name, e) ==
    IF StrLower(name) = "openai" /\ e.openai THEN "openai"
    ELSE IF StrLower(name) = "claude" /\ e.claude THEN "claude"
    ELSE IF StrLower(name) = "claude"
         THEN (IF e.openai THEN "openai" ELSE None)
         ELSE (IF e.claude THEN "claude" ELSE None)

\* What the provider's client can return to generate_response during a run.
RunReplies ==
    {FormatReply("15", "crossing", a, "Risk of collision exists") : a \in VALID_ACTIONS}
    \cup {InvalidReply}

RunErrors == {"Request timed out."}

\* make_decision, lines 187-207, for a non-empty vessel list: the strings it
\* can return, each with the branch that produced it.
make_decision(name, e) ==
    LET backend == initialize_provider(name, e)
    IN  IF backend = None
        THEN {[outcome |-> "no_provider", decision |-> "No LLM provider available"]}
        ELSE {[outcome |-> IF r = InvalidReply THEN "unrecognised" ELSE "directive",
               decision |-> TagReply(name, r)] : r \in RunReplies}
             \cup
             {[outcome |-> "provider_error",
               decision |-> TagReply(name, ErrorReply(backend, x))] : x \in RunErrors}

\* run_colm, lines 68-88.
run_colm(llm_provider, e) ==
    IF ~e.LLM_AVAILABLE
    THEN {[outcome |-> "llm_unavailable",
           decision |-> "LLM not available - using default behavior"]}
    ELSE make_decision(provider_name(llm_provider, e), e)

(***************************************************************************)
(* SpecProvider: MultiLLMCOLREGSInterpreter(provider) constructed in an    *)
(* environment (multi_llm_decision.py 122-161), then make_decision called  *)
(* on it with a non-empty vessel list (187-207).                           *)
(***************************************************************************)
ConfiguredNames == ProviderNames \cup {"OpenAI", "Claude"}

ProviderEnvs ==
    [LLM_AVAILABLE : {TRUE}, openai : BOOLEAN, claude : BOOLEAN,
     LLM_PROVIDER : ConfiguredNames]

InitProvider ==
    /\ RunIdle
    /\ \E p \in ConfiguredNames \cup {None}, e \in ProviderEnvs :
           call = [fn |-> "_initialize_provider",
                   in |-> [provider |-> p, env |-> e],
                   returned |-> FALSE, out |-> None]

\* __init__, lines 122-124.
CallInitializeProvider ==
    /\ call.fn = "_initialize_provider" /\ ~call.returned
    /\ call' = [call EXCEPT !.returned = TRUE, !.out =
                   [provider_name |-> provider_name(call.in.provider, call.in.env),
                    provider |-> initialize_provider(
                                     provider_name(call.in.provider, call.in.env),
                                     call.in.env)]]
    /\ UNCHANGED runVars

CallMakeDecision ==
    /\ call.fn = "_initialize_provider" /\ call.returned
    /\ \E d \in make_decision(call.out.provider_name, call.in.env) :
           call' = [fn |-> "make_decision",
                    in |-> [provider_name |-> call.out.provider_name,
                            provider |-> call.out.provider],
                    returned |-> TRUE, out |-> d.decision]
    /\ UNCHANGED runVars

SpecProvider == InitProvider /\ [][CallInitializeProvider \/ CallMakeDecision]_vars

(***************************************************************************)
(* run_simulation (simulation.py 117-490).                                 *)
(***************************************************************************)
MaxSimTime == 804        \* longest sim_time drawn, in quarter seconds

SimTimes == {0, 1, 3, 5, MaxSimTime}
Dts == {2, 4}            \* dt = 0.5 s and dt = 1 s
CaseNumbers == {1, 5, 24}

ArgsSet ==
    [case_number : CaseNumbers, sim_time : SimTimes, dt : Dts,
     no_animation : BOOLEAN, llm : {0, 1}, llm_provider : {None, "claude", "gemini"}]

\* LLM_AVAILABLE (lines 21-27); OpenAIProvider.is_available and
\* ClaudeProvider.is_available; os.getenv("LLM_PROVIDER", "openai").
\* The provider classes live in the module whose import sets LLM_AVAILABLE, so
\* neither backend is available when the import failed.
EnvSet ==
    {e \in [LLM_AVAILABLE : BOOLEAN, openai : BOOLEAN, claude : BOOLEAN,
            LLM_PROVIDER : {"openai"}] :
        ~e.LLM_AVAILABLE => (~e.openai /\ ~e.claude)}

\* Python's round() of the quotient num / den: to nearest, ties to even.
Round(num, den) ==
    LET q == num \div den
        r == num % den
    IN  IF 2 * r < den THEN q
        ELSE IF 2 * r > den THEN q + 1
        ELSE IF q % 2 = 0 THEN q ELSE q + 1

FillValue == 1000        \* DCPA[:1], TCPA[:1] = 1000, 1000 (line 177)
DecisionInterval == 200  \* if i % 200 == 0 (lines 276, 404)

InitRun ==
    /\ pc = "start"
    /\ args \in ArgsSet
    /\ env \in EnvSet
    /\ N = 0 /\ i = 0 /\ t = 0
    /\ X = None /\ Xob = <<>> /\ Yob = <<>> /\ Vob = <<>> /\ psiob = <<>>
    /\ Kdir = <<>> /\ row = None
    /\ decision = None /\ outcome = None /\ colmCalls = <<>> /\ warnings = 0
    /\ call = NoCall
    /\ results = NoResults

\* LOA_ob = [80] * len(Xob); CPA_ob = [LOA_ob[0] * 1] * len(Xob) (lines
\* 159-161): LOA_ob[0] raises IndexError when the obstacle list is empty.
SetupRaises_Never(xob) == FALSE

SetupRaises(xob) == Len(xob) = 0

\* Lines 130-179.  An unknown case gives empty obstacle lists.
Setup ==
    /\ pc = "start"
    /\ LET obs == get_obstacle_data(args.case_number)
       IN  IF SetupRaises(obs.Xob)
           THEN /\ pc' = "error"
                /\ UNCHANGED <<N, X, Xob, Yob, Vob, psiob, Kdir>>
           ELSE /\ pc' = "loop"
                /\ N' = Round(args.sim_time, args.dt)
                /\ X' = [x |-> 0, y |-> 0, psi |-> 0]
                /\ Xob' = obs.Xob /\ Yob' = obs.Yob
                /\ Vob' = obs.Vob /\ psiob' = obs.psiob
                /\ Kdir' = [k \in 1..Round(args.sim_time, args.dt) |-> 1]   \* np.ones(N)
    /\ UNCHANGED <<args, env, i, t, row, decision, outcome, colmCalls,
                   warnings, call, results>>

Animation == ~args.no_animation     \* line 135

\* for i in range(len(x)) (lines 191, 320)
LoopContinues_StopOnCollision ==
    /\ i < N
    /\ (i >= 1 => \A j \in DOMAIN row.Distance_ob : row.Distance_ob[j].v # 0)

LoopContinues == i < N

DecisionDue_SkipFirst(k) == k % DecisionInterval = 0 /\ k > 0

DecisionDue(k) == k % DecisionInterval = 0

\* if i == 0:  # Print warning only once (lines 273, 401)
WarningDue_EveryStep(k) == TRUE

WarningDue(k) == k = 0

\* Xob, Yob, Vxob, Vyob = obstacle_sim(Xob, Yob, Vob, psiob, dt) (lines 245, 373)
ObstacleStep_Reacting ==
    obstacle_sim(Xob, Yob,
                 [j \in DOMAIN Vob |->
                     IF Hypot(Xob[j] - X.x, Yob[j] - X.y) <= RangeB THEN 0 ELSE Vob[j]],
                 psiob, args.dt)

ObstacleStep == obstacle_sim(Xob, Yob, Vob, psiob, args.dt)

\* if i >= 1: (lines 253, 381), with the test left out.
GeometryDue_FromStart(k) == TRUE

\* if i >= 1: (lines 253, 381)
GeometryDue(k) == k >= 1

\* The previous-step reads x[i-1], y[i-1], Xobs[i-1, j], Yobs[i-1, j] of lines
\* 258-261 and 386-389.  Python's index -1 is the last entry of the array,
\* which step 0 finds at its zero fill.
PreviousStep ==
    IF i >= 1
    THEN [index |-> i - 1, x |-> row.x, y |-> row.y,
          Xobs |-> row.Xobs, Yobs |-> row.Yobs]
    ELSE [index |-> -1, x |-> 0, y |-> 0,
          Xobs |-> [j \in DOMAIN Xob |-> 0], Yobs |-> [j \in DOMAIN Xob |-> 0]]

\* The risk analysis of one obstacle j at step i (lines 252-269 and 380-397).
\* Both closing-geometry variants are called inside `if i >= 1`; at step 0
\* DCPA and TCPA keep the fill of line 177 and every other array its zeros.
\* The animated body calls risk_calculations at every step; the body without
\* animation calls it inside `if i >= 1`.  risk_called and cpa2_called record
\* whether step i assigned Risk[i, j] and DCPA2[i, j].
RiskEntry(animated, dist, cpa, cpa2) ==
    [Distance_ob |-> dist, DCPA |-> cpa.DCPA, TCPA |-> cpa.TCPA, Vrel |-> cpa.Vrel,
     DCPA2 |-> cpa2.DCPA, TCPA2 |-> cpa2.TCPA, Vrel2 |-> cpa2.Vrel,
     cpa_called |-> GeometryDue(i),
     prev_index |-> PreviousStep.index,
     cpa2_called |-> GeometryDue(i),
     risk_called |-> animated \/ GeometryDue(i),
     Risk |-> IF animated \/ GeometryDue(i)
              THEN risk_calculations(cpa.DCPA, cpa.TCPA, dist.v, cpa.Vrel)
              ELSE 0]

DistanceEntry(j, x_i, y_i, ra, ob) ==
    IF GeometryDue(i)
    THEN [v |-> Hypot(ob.Xob[j] - x_i, ob.Yob[j] - y_i), unit |-> "m"]
    ELSE [v |-> ra.distance_ob[j], unit |-> "nmi"]

RiskAnalysis(animated, j, x_i, y_i, X_dot, ra, ob) ==
    RiskEntry(animated,
              DistanceEntry(j, x_i, y_i, ra, ob),
              IF GeometryDue(i)
              THEN cpa_calculations(x_i, y_i, PreviousStep.x, PreviousStep.y,
                                    ob.Xob[j], ob.Yob[j],
                                    PreviousStep.Xobs[j], PreviousStep.Yobs[j], args.dt)
              ELSE [DCPA |-> FillValue, TCPA |-> FillValue, Vrel |-> 0],
              IF GeometryDue(i)
              THEN cpa_calculations_0speed(x_i, y_i, ob.Xob[j], ob.Yob[j],
                                           X_dot.x, X_dot.y, ob.Vxob[j], ob.Vyob[j],
                                           DistanceEntry(j, x_i, y_i, ra, ob).v)
              ELSE [DCPA |-> 0, TCPA |-> 0, Vrel |-> 0])

\* The arguments of run_colm at step i (lines 277-284, 405-412): Risk[i, :],
\* Distance_ob[i, :], Bearing_ob[i, :], DCPA[i, :], TCPA[i, :].
ColmArgs_Instant(an, ra) ==
    [risk |-> [j \in DOMAIN an |-> an[j].Risk],
     distance |-> [j \in DOMAIN an |-> an[j].Distance_ob],
     bearing |-> ra.bearing_ob,
     dcpa |-> [j \in DOMAIN an |-> an[j].DCPA2],
     tcpa |-> [j \in DOMAIN an |-> an[j].TCPA2]]

ColmArgs(an, ra) ==
    [risk |-> [j \in DOMAIN an |-> an[j].Risk],
     distance |-> [j \in DOMAIN an |-> an[j].Distance_ob],
     bearing |-> ra.bearing_ob,
     dcpa |-> [j \in DOMAIN an |-> an[j].DCPA],
     tcpa |-> [j \in DOMAIN an |-> an[j].TCPA]]

\* Kdir[i:] = new_kdir: the directive stored for every step from i on.
StoreKdir_Onward(kdir, k, new_kdir) ==
    [n \in DOMAIN kdir |-> IF n >= k + 1 THEN new_kdir ELSE kdir[n]]

\* Kdir[i] = new_kdir (lines 290, 417)
StoreKdir(kdir, k, new_kdir) == [kdir EXCEPT ![k + 1] = new_kdir]

\* The arrays after step i wrote its entries.
RecordStep(res, r) ==
    IF res.followed THEN [res EXCEPT !.arrays = Append(@, r)] ELSE res

\* Lines 271-295 and 399-419: the values of decision, outcome, Kdir,
\* colmCalls and warnings after the hook section of step i, and the record of
\* the run_colm call made in it.
HookSection(an, ra) ==
    IF args.llm = 1
    THEN IF ~env.LLM_AVAILABLE
         THEN {[decision |-> decision, outcome |-> outcome, Kdir |-> Kdir,
                colmCalls |-> colmCalls, call |-> call,
                warnings |-> IF WarningDue(i) THEN warnings + 1 ELSE warnings]}
         ELSE IF DecisionDue(i)
              THEN {[decision |-> r.decision, outcome |-> r.outcome,
                     Kdir |-> StoreKdir(Kdir, i,
                                        extract_kdir_from_response(r.decision)),
                     colmCalls |-> Append(colmCalls, i),
                     call |-> [fn |-> "run_colm", in |-> ColmArgs(an, ra),
                               returned |-> TRUE, out |-> r.decision],
                     warnings |-> warnings] : r \in run_colm(args.llm_provider, env)}
              ELSE {[decision |-> decision, outcome |-> outcome, Kdir |-> Kdir,
                     colmCalls |-> colmCalls, call |-> call, warnings |-> warnings]}
    ELSE {[decision |-> decision, outcome |-> outcome, Kdir |-> Kdir,
           colmCalls |-> colmCalls, call |-> call, warnings |-> warnings]}

\* One iteration of the step loop.  psi_p[i] = psi_wp[i] + Kdir[i] * psi_oa[i]
\* (lines 230, 355): psi_wp in units of 45 degrees plus a rational number of
\* radians over OaDen.
LoopBody(animated) ==
    \E ra \in {reactive_avoidance(Xob, Yob, X.x, X.y, X.psi)},
       ob \in {ObstacleStep},
       X_dot \in {vessel_dynamics(X)},
       psi_wp_i \in {planning(X.x, X.y)} :
      \E an \in {[j \in 1..Len(Xob) |->
                    RiskAnalysis(animated, j, X.x, X.y, X_dot, ra, ob)]} :
       \E h \in HookSection(an, ra) :
        /\ X' = integration(X, X_dot, args.dt)
        /\ Xob' = ob.Xob /\ Yob' = ob.Yob
        /\ row' = [x |-> X.x, y |-> X.y, psi |-> X.psi,
                   psi_wp |-> psi_wp_i, psi_oa |-> ra.psi_oa,
                   psi_p |-> [wp |-> psi_wp_i, oa |-> Kdir[i + 1] * ra.psi_oa],
                   Bearing_ob |-> ra.bearing_ob,
                   Xobs |-> ob.Xob, Yobs |-> ob.Yob,
                   Distance_ob |-> [j \in DOMAIN an |-> an[j].Distance_ob],
                   DCPA |-> [j \in DOMAIN an |-> an[j].DCPA],
                   TCPA |-> [j \in DOMAIN an |-> an[j].TCPA],
                   Vrel |-> [j \in DOMAIN an |-> an[j].Vrel],
                   DCPA2 |-> [j \in DOMAIN an |-> an[j].DCPA2],
                   TCPA2 |-> [j \in DOMAIN an |-> an[j].TCPA2],
                   Vrel2 |-> [j \in DOMAIN an |-> an[j].Vrel2],
                   cpa_called |-> [j \in DOMAIN an |-> an[j].cpa_called],
                   prev_index |-> [j \in DOMAIN an |-> an[j].prev_index],
                   cpa2_called |-> [j \in DOMAIN an |-> an[j].cpa2_called],
                   risk_called |-> [j \in DOMAIN an |-> an[j].risk_called],
                   Risk |-> [j \in DOMAIN an |-> an[j].Risk]]
        /\ decision' = h.decision /\ outcome' = h.outcome
        /\ Kdir' = h.Kdir /\ colmCalls' = h.colmCalls
        /\ warnings' = h.warnings
        /\ call' = h.call
        /\ results' = RecordStep(results, row')
        /\ t' = t + args.dt
        /\ i' = i + 1
        /\ UNCHANGED <<pc, args, env, N, Vob, psiob>>

\* Lines 189-311.
StepAnimated == pc = "loop" /\ LoopContinues /\ Animation /\ LoopBody(TRUE)

\* Lines 318-421.
StepPlain == pc = "loop" /\ LoopContinues /\ ~Animation /\ LoopBody(FALSE)

\* Lines 423-459: the loop is exhausted; the plots.  The return of lines
\* 461-490 hands nothing back unless return_data is set (ReturnData).
Finish ==
    /\ pc = "loop" /\ ~LoopContinues
    /\ pc' = "done"
    /\ UNCHANGED <<args, env, N, i, t, X, Xob, Yob, Vob, psiob, Kdir, row,
                   decision, outcome, colmCalls, warnings, call, results>>

Next == Setup \/ StepAnimated \/ StepPlain \/ Finish

Spec == InitRun /\ [][Next]_vars

(***************************************************************************)
(* SpecPair: two calls of run_simulation(args, return_data=True) in        *)
(* succession, as run_comparison_simulation makes them (lines 33-39): the  *)
(* baseline with llm = 0, then a run of the same case, sim_time and dt     *)
(* with the hook enabled or with the other setting of --no_animation.      *)
(* The arrays are followed in full, and each run's return value is kept.   *)
(***************************************************************************)
\* comparison_kdir[i] = control_value, without the three-way test.
ControlSign_Raw(control_value) == control_value

\* Lines 468-474.
ControlSign(control_value) ==
    IF control_value > 0 THEN 1
    ELSE IF control_value < 0 THEN -1
    ELSE 0

\* Lines 465-467: control_value = Kdir[i] * psi_oa[i], for i in range(len(Kdir)).
comparison_kdir(kdir, psi_oa) ==
    [k \in DOMAIN kdir |-> ControlSign(kdir[k] * psi_oa[k])]

Column(arrays, f) == [k \in DOMAIN arrays |-> arrays[k][f]]

\* The dictionary of lines 476-489; `locals` keeps Kdir and the arrays as they
\* are at the return, which the dictionary leaves out.
ReturnedData(a, kdir, arrays) ==
    [args |-> a,
     x |-> Column(arrays, "x"), y |-> Column(arrays, "y"),
     psi |-> Column(arrays, "psi"),
     kdir |-> comparison_kdir(kdir, Column(arrays, "psi_oa")),
     risk |-> Column(arrays, "Risk"),
     dcpa |-> Column(arrays, "DCPA"), tcpa |-> Column(arrays, "TCPA"),
     distance_ob |-> Column(arrays, "Distance_ob"),
     locals |-> [Kdir |-> kdir, arrays |-> arrays]]

PairArgsSet ==
    {a \in ArgsSet : /\ a.llm = 0 /\ a.llm_provider = None
                     /\ a.dt = SetMax(Dts) /\ a.sim_time >= a.dt}

PairEnvSet == {e \in EnvSet : e.LLM_AVAILABLE /\ ~e.claude}

InitPair ==
    /\ pc = "start"
    /\ args \in PairArgsSet
    /\ env \in PairEnvSet
    /\ N = 0 /\ i = 0 /\ t = 0
    /\ X = None /\ Xob = <<>> /\ Yob = <<>> /\ Vob = <<>> /\ psiob = <<>>
    /\ Kdir = <<>> /\ row = None
    /\ decision = None /\ outcome = None /\ colmCalls = <<>> /\ warnings = 0
    /\ call = NoCall
    /\ results = [followed |-> TRUE, arrays |-> <<>>, returned |-> <<>>]

\* Lines 461-490: if return_data: ... return {...}
ReturnData ==
    /\ pc = "done" /\ results.followed
    /\ pc' = "returned"
    /\ results' = [results EXCEPT
                      !.returned = Append(@, ReturnedData(args, Kdir, results.arrays))]
    /\ UNCHANGED <<args, env, N, i, t, X, Xob, Yob, Vob, psiob, Kdir, row,
                   decision, outcome, colmCalls, warnings, call>>

\* The second call: args.llm = 1 (comparison_simulation.py 37-39), or the
\* same arguments with the other setting of --no_animation.
SecondRun ==
    /\ pc = "returned" /\ Len(results.returned) = 1
    /\ args' \in {[args EXCEPT !.llm = 1], [args EXCEPT !.no_animation = ~@]}
    /\ pc' = "start"
    /\ N' = 0 /\ i' = 0 /\ t' = 0
    /\ X' = None /\ Xob' = <<>> /\ Yob' = <<>> /\ Vob' = <<>> /\ psiob' = <<>>
    /\ Kdir' = <<>> /\ row' = None
    /\ decision' = None /\ outcome' = None /\ colmCalls' = <<>> /\ warnings' = 0
    /\ call' = NoCall
    /\ results' = [results EXCEPT !.arrays = <<>>]
    /\ UNCHANGED env

NextPair ==
    \/ Setup
    \/ StepAnimated
    \/ StepPlain
    \/ Finish
    \/ ReturnData
    \/ SecondRun

SpecPair == InitPair /\ [][NextPair]_vars

(***************************************************************************)
(* SpecCompare: run_simulation's entry (simulation.py 117-128) and         *)
(* run_comparison_simulation (comparison_simulation.py 13-79).  call.runs  *)
(* lists the simulation runs performed, each with the llm flag and the     *)
(* return_data argument it ran with; call.reentered says that an inner     *)
(* call took the comparison branch again.                                  *)
(***************************************************************************)
CompareArgsSet ==
    [case_number : CaseNumbers, sim_time : SimTimes, dt : Dts,
     no_animation : BOOLEAN, llm : {0, 1}, llm_provider : {None, "claude"},
     compare : BOOLEAN]

\* Line 125, with the return_data test left out.
EntersComparison_Always(a, return_data) == a.compare

\* Line 125: if args.compare and not return_data
EntersComparison(a, return_data) == a.compare /\ ~return_data

\* A run of the simulation proper (lines 130-490) raises at set-up for a case
\* without obstacles and returns otherwise; it assigns no attribute of args.
RunRaises(a) == SetupRaises(get_obstacle_data(a.case_number).Xob)

compareVars == <<env, N, i, t, X, Xob, Yob, Vob, psiob, Kdir, row,
                 decision, outcome, colmCalls, warnings, results>>

InitCompare ==
    /\ pc = "entry" /\ env = None /\ N = 0 /\ i = 0 /\ t = 0
    /\ X = None /\ Xob = <<>> /\ Yob = <<>> /\ Vob = <<>>
    /\ psiob = <<>> /\ Kdir = <<>> /\ row = None /\ decision = None
    /\ outcome = None /\ colmCalls = <<>> /\ warnings = 0
    /\ results = NoResults
    /\ args \in CompareArgsSet
    /\ \E rd \in BOOLEAN :
           call = [fn |-> "run_simulation",
                   in |-> [args |-> args, return_data |-> rd],
                   returned |-> FALSE, out |-> None,
                   runs |-> <<>>, reentered |-> FALSE,
                   original_llm |-> None, original_animation |-> None]

\* Lines 125-128, and comparison_simulation.py 28-29 when the branch is taken;
\* otherwise the run itself.
RunSimulationEntry ==
    /\ pc = "entry"
    /\ IF EntersComparison(args, call.in.return_data)
       THEN /\ pc' = "baseline"
            /\ call' = [call EXCEPT !.original_llm = args.llm,
                                    !.original_animation = args.no_animation]
       ELSE /\ pc' = IF RunRaises(args) THEN "raised" ELSE "returned"
            /\ call' = [call EXCEPT
                          !.runs = Append(@, [llm |-> args.llm,
                                              return_data |-> call.in.return_data]),
                          !.returned = ~RunRaises(args)]
    /\ UNCHANGED <<args, compareVars>>

\* args.llm = llm; _run_simulation(args, return_data=True)
InnerRun(llm, from, to) ==
    /\ pc = from
    /\ \E a \in {[args EXCEPT !.llm = llm]} :
          /\ args' = a
          /\ IF EntersComparison(a, TRUE)
             THEN /\ pc' = "raised"
                  /\ call' = [call EXCEPT !.reentered = TRUE]
             ELSE /\ pc' = IF RunRaises(a) THEN "raised" ELSE to
                  /\ call' = [call EXCEPT
                                !.runs = Append(@, [llm |-> a.llm, return_data |-> TRUE])]
    /\ UNCHANGED compareVars

\* Lines 33-35.
CompareBaseline == InnerRun(0, "baseline", "llm_run")

\* Lines 37-39.
CompareLlm == InnerRun(1, "llm_run", "plots")

\* Lines 41-64: plots, statistics and summary, given values read from args and
\* the two results; writing the files can fail.
ComparePlots ==
    /\ pc = "plots"
    /\ pc' \in {"restore", "raised"}
    /\ UNCHANGED <<args, call, compareVars>>

\* Lines 67-79.
CompareRestore ==
    /\ pc = "restore"
    /\ args' = [args EXCEPT !.llm = call.original_llm,
                            !.no_animation = call.original_animation]
    /\ pc' = "returned"
    /\ call' = [call EXCEPT !.returned = TRUE]
    /\ UNCHANGED compareVars

NextCompare ==
    \/ RunSimulationEntry
    \/ CompareBaseline
    \/ CompareLlm
    \/ ComparePlots
    \/ CompareRestore

SpecCompare == InitCompare /\ [][NextCompare]_vars

(***************************************************************************)
(* Claims about the pure functions.                                        *)
(***************************************************************************)
Returned(fn) == call.fn = fn /\ call.returned

\* C4 (as stated): extract_kdir_from_response maps a reply to +1 when its
\* action is "turn to starboard", to -1 when its action is "turn to port" and
\* to 0 when its action is "stand on" or anything else, whatever the
\* explanation text, the provider tag or the embedded error text is.
C4_ActionDecidesKdir ==
    Returned("extract_kdir_from_response") =>
        call.out = (CASE call.in.action = "Give-way, turn to starboard" -> 1
                      [] call.in.action = "Give-way, turn to port" -> -1
                      [] OTHER -> 0)

\* C8: reactive_avoidance called with no obstacles returns psi_oa = 0 and
\* empty weight, distance and bearing vectors.
C8_NoObstaclesZeroBias ==
    (Returned("reactive_avoidance") /\ Len(call.in.x_ob) = 0) =>
        /\ call.out.psi_oa = 0
        /\ call.out.w_b = <<>>
        /\ call.out.w_r = <<>>
        /\ call.out.distance_ob = <<>>
        /\ call.out.bearing_ob = <<>>

C8_Witness ==
    /\ Returned("reactive_avoidance")
    /\ Len(call.in.x_ob) = 0 /\ Len(call.in.y_ob) = 0
    /\ call.in.psi # 0 /\ call.in.x # 0
    /\ call.out.psi_oa = 0

\* C9: for a < b, zmf(d, a, b) is 1 for d <= a, 0 for d >= b, in [0, 1]
\* everywhere, non-increasing in d, and its two quadratic branches both give
\* 1/2 at the midpoint d = (a + b) / 2.
C9_ZmfShape ==
    Returned("zmf") =>
        LET x == call.in.x  a == call.in.a  b == call.in.b
            y == call.out   den == ZmfDen(a, b)
        IN  /\ a < b
            /\ DOMAIN y = DOMAIN x
            /\ \A k \in DOMAIN x :
                  /\ x[k] <= a => y[k] = den
                  /\ x[k] >= b => y[k] = 0
                  /\ 0 <= y[k] /\ y[k] <= den
                  /\ 2 * x[k] = a + b =>
                        /\ 2 * ZmfLower(x[k], a, b) = den
                        /\ 2 * ZmfUpper(x[k], a, b) = den
                        /\ 2 * y[k] = den
            /\ \A j, k \in DOMAIN x : x[j] <= x[k] => y[j] >= y[k]

C9_Witness ==
    /\ Returned("zmf")
    /\ call.in.a = RangeA /\ call.in.b = RangeB
    /\ call.in.x = <<7, 9>>
    /\ call.out = <<34, 18>>

\* C10: every bearing weight is <= 0 and every range weight is in [0, 1], so
\* psi_oa is never positive and lies in [-2N, 0]; it is non-zero exactly when
\* some obstacle is closer than the far influence radius b.
C10_BiasSignAndRange ==
    Returned("reactive_avoidance") =>
        LET n == Len(call.in.x_ob)
            o == call.out
        IN  /\ \A j \in 1..n :
                  /\ o.w_b[j] <= 0
                  /\ 0 <= o.w_r[j] /\ o.w_r[j] <= ZmfDen(RangeA, RangeB)
            /\ o.psi_oa <= 0
            /\ o.psi_oa >= -2 * n * OaDen
            /\ (o.psi_oa # 0) <=> (\E j \in 1..n : o.distance_ob[j] < RangeB)

C10_Witness ==
    /\ Returned("reactive_avoidance")
    /\ Len(call.in.x_ob) = 2
    /\ call.out.distance_ob[1] < RangeB /\ call.out.distance_ob[1] > RangeA
    /\ call.out.distance_ob[2] >= RangeB
    /\ call.out.bearing_ob[1] # 0
    /\ call.out.psi_oa < 0

(***************************************************************************)
(* Claims about run_simulation.                                            *)
(***************************************************************************)
Started == pc \in {"loop", "done"}

Collision == i >= 1 /\ \E j \in DOMAIN row.Distance_ob : row.Distance_ob[j].v = 0

\* C1: the step loop executes exactly N = round(sim_time / dt) steps and then
\* ends; no value of Risk, DCPA, TCPA or distance reached during the run, a
\* collision (distance 0, risk 100 %) included, ends the loop early.
C1_LoopRunsNSteps ==
    Started =>
        /\ N = Round(args.sim_time, args.dt)
        /\ i <= N
        /\ t = i * args.dt
        /\ pc = "done" => i = N
        /\ (pc = "loop" /\ i < N /\ Collision) => ENABLED (StepAnimated \/ StepPlain)

C1_Witness ==
    /\ pc = "loop" /\ 1 <= i /\ i < N
    /\ Collision
    /\ \E j \in DOMAIN row.Risk : row.Risk[j] = 100

\* C2 (as stated): the directive obtained at a decision step is the factor
\* multiplying psi_oa in psi_p at the steps of the 200-step interval that
\* follows, i.e. psi_p[k] = psi_wp[k] + Kdir[d] * psi_oa[k] with d the last
\* decision step before k.
C2_DirectiveHeldForInterval ==
    (Started /\ args.llm = 1 /\ env.LLM_AVAILABLE /\ i >= 1
        /\ (i - 1) % DecisionInterval # 0) =>
        LET k == i - 1
            d == DecisionInterval * (k \div DecisionInterval)
        IN  row.psi_p = [wp |-> row.psi_wp, oa |-> Kdir[d + 1] * row.psi_oa]

\* C3 (as stated): when the hook fails (no provider, the provider call
\* raises) or its reply holds no recognised directive, the override factor
\* recorded for that decision step is +1.
C3_FailedHookKeepsSign ==
    (Started /\ colmCalls # <<>>
        /\ outcome \in {"no_provider", "provider_error", "unrecognised"}) =>
        Kdir[colmCalls[Len(colmCalls)] + 1] = 1

\* C5: with llm = 1 and the LLM module importable, run_colm is invoked at
\* step i exactly when i mod 200 = 0: first at step 0, once per such step,
\* ceil(N / 200) times in a whole run.  With llm = 0 it is never invoked and
\* Kdir[i] = 1 at every step i.
C5_HookEveryInterval ==
    Started =>
        /\ (args.llm = 1 /\ env.LLM_AVAILABLE) =>
              /\ Len(colmCalls) = (i + DecisionInterval - 1) \div DecisionInterval
              /\ \A c \in DOMAIN colmCalls : colmCalls[c] = (c - 1) * DecisionInterval
        /\ args.llm = 0 =>
              /\ colmCalls = <<>>
              /\ \A k \in DOMAIN Kdir : Kdir[k] = 1

C5_Witness ==
    /\ pc = "done" /\ args.llm = 1 /\ env.LLM_AVAILABLE
    /\ N > 2 * DecisionInterval
    /\ colmCalls = <<0, DecisionInterval, 2 * DecisionInterval>>

\* C6: for a case identifier that is not in the scenario catalog the run
\* fails during setup: the error is raised before the first iteration of the
\* step loop, no step is executed and no per-step value is recorded.
C6_UnknownCaseFailsAtSetup ==
    args.case_number \notin DOMAIN obstacle_cases =>
        /\ pc \in {"start", "error"}
        /\ i = 0 /\ t = 0 /\ row = None
        /\ Kdir = <<>> /\ colmCalls = <<>> /\ warnings = 0

C6_Witness ==
    /\ pc = "error"
    /\ args.case_number \notin DOMAIN obstacle_cases
    /\ get_obstacle_data(args.case_number).Xob = <<>>
    /\ args.sim_time > 0

\* C7: with llm = 1 and LLM_AVAILABLE false, the warning is emitted at step 0
\* and at no other step, the hook is never called, Kdir[i] = 1 at every
\* step, and all N steps are executed.
C7_UnavailableWarnsOnce ==
    (Started /\ args.llm = 1 /\ ~env.LLM_AVAILABLE) =>
        /\ warnings = (IF i >= 1 THEN 1 ELSE 0)
        /\ colmCalls = <<>> /\ decision = None
        /\ \A k \in DOMAIN Kdir : Kdir[k] = 1
        /\ pc = "done" => i = N

C7_Witness ==
    /\ pc = "done" /\ args.llm = 1 /\ ~env.LLM_AVAILABLE
    /\ N > DecisionInterval /\ i = N
    /\ warnings = 1

\* C11: throughout a run the number of obstacles, every Vob[j] and every
\* psiob[j] are unchanged, and the obstacle update takes only the obstacles'
\* own positions, speeds, headings and dt: after i steps every obstacle is
\* where its straight line from the catalog position puts it, whatever the
\* own ship and the decision hook did.
C11_ObstaclesIndependent ==
    Started =>
        LET o == get_obstacle_data(args.case_number)
        IN  /\ Len(Xob) = Len(o.Xob) /\ Len(Yob) = Len(o.Xob)
            /\ Vob = o.Vob /\ psiob = o.psiob
            /\ \A j \in DOMAIN Xob :
                  /\ Xob[j] = o.Xob[j] + i * args.dt * Vob[j] * Cos(psiob[j])
                  /\ Yob[j] = o.Yob[j] + i * args.dt * Vob[j] * Sin(psiob[j])
            /\ i >= 1 => (row.Xobs = Xob /\ row.Yobs = Yob)

C11_Witness ==
    /\ pc = "loop" /\ i > DecisionInterval
    /\ Len(Xob) = 2
    /\ args.llm = 1 /\ Len(colmCalls) = 2 /\ Kdir[1] = -1
    /\ \E j \in DOMAIN Xob : Hypot(Xob[j] - X.x, Yob[j] - X.y) > RangeB
    /\ Xob # get_obstacle_data(args.case_number).Xob

\* C12 (as stated): the risk scorer is evaluated at every step of the loop,
\* step 0 included, for every obstacle j, so every Risk[i, j] holds a value
\* produced by risk_calculations at step i.
C12_RiskScoredEveryStep ==
    (Started /\ i >= 1) => \A j \in DOMAIN row.risk_called : row.risk_called[j]

\* C13 (as stated): the instantaneous-velocity variant cpa_calculations_0speed
\* is evaluated at every step, step 0 included.
C13_InstantVariantEveryStep ==
    (Started /\ i >= 1) => \A j \in DOMAIN row.cpa2_called : row.cpa2_called[j]

\* C17: DCPA2, TCPA2 and Vrel2 are write-only in the step loop: Risk[i, j] is
\* the score of the finite-difference DCPA, TCPA and Vrel of the same row,
\* the hook receives Risk, Distance_ob, Bearing_ob, DCPA and TCPA of its step,
\* Kdir of a decision step is extracted from the hook's reply, and the
\* desired heading is made of psi_wp and psi_oa of the step alone.
C17_InstantVariantWriteOnly ==
    (Started /\ i >= 1) =>
        /\ \A j \in DOMAIN row.Risk :
              row.Risk[j] = (IF row.risk_called[j]
                             THEN risk_calculations(row.DCPA[j], row.TCPA[j],
                                                    row.Distance_ob[j].v, row.Vrel[j])
                             ELSE 0)
        /\ row.psi_p = [wp |-> row.psi_wp, oa |-> row.psi_oa]
        /\ (colmCalls # <<>> /\ colmCalls[Len(colmCalls)] = i - 1) =>
              /\ call.fn = "run_colm"
              /\ call.in = [risk |-> row.Risk, distance |-> row.Distance_ob,
                            bearing |-> row.Bearing_ob,
                            dcpa |-> row.DCPA, tcpa |-> row.TCPA]
              /\ call.out = decision
              /\ Kdir[i] = extract_kdir_from_response(decision)

C17_Witness ==
    /\ pc = "loop" /\ i >= 1
    /\ colmCalls # <<>> /\ colmCalls[Len(colmCalls)] = i - 1
    /\ call.fn = "run_colm"
    /\ row.DCPA2 # row.DCPA
    /\ call.in.dcpa = row.DCPA

(***************************************************************************)
(* Claims about the response validation (validation.py).                   *)
(***************************************************************************)
\* C14: parse_response returns a ValidatedResponse exactly when the response
\* (surrounding white space aside) has the form
\* 'Rule <digits> (<situation>), Action: <action>, explanation: <text>' with
\* <situation> case-insensitively one of head-on / overtaking / crossing,
\* <action> one of the three VALID_ACTIONS and <text> not empty; for every
\* other string it returns None.  The value returned carries the parts.
C14_WellFormed(inp) ==
    /\ StrStrip(inp.lead) = ""
    /\ inp.word = "Rule"
    /\ inp.rule # "" /\ \A k \in 1..Len(inp.rule) : Ch(inp.rule, k) \in DigitChars
    /\ \E v \in VALID_SITUATIONS : StrLower(inp.situation) = v
    /\ \E v \in VALID_ACTIONS : StrStrip(inp.action) = v
    /\ inp.label = "explanation"
    /\ inp.text # ""

C14_ParseAcceptsExactlyTheFormat ==
    Returned("parse_response") =>
        /\ C14_WellFormed(call.in) <=> ~call.out.is_none
        /\ ~call.out.is_none =>
              /\ call.out.rule = call.in.rule
              /\ call.out.situation_type = StrLower(call.in.situation)
              /\ call.out.action = StrStrip(call.in.action)
              /\ ~call.out.is_fallback

C14_Witness ==
    /\ Returned("parse_response")
    /\ call.in.lead = "  " /\ call.in.situation = "Head-On"
    /\ call.in.action = " Give-way, turn to port "
    /\ ~call.out.is_none
    /\ call.out.situation_type = "head-on"
    /\ call.out.action = "Give-way, turn to port"

\* C15 (as stated): when the LLM response fails validation,
\* enhanced_decision_making_llm does not raise: it logs one warning and
\* returns the fallback response string; when the response passes validation
\* it returns the LLM response unchanged.
C15_InvalidResponseFallsBack ==
    Returned("enhanced_decision_making_llm") =>
        /\ call.out.raised = NotRaised
        /\ IF parse_response(call.in.llm_response).is_none
           THEN /\ warnings = 1
                /\ \E tn \in BOOLEAN, si \in FallbackSituations :
                      call.out.value =
                          FormatFallback(get_fallback_response(
                              call.in.risk, call.in.distance, call.in.rel_bearing, tn, si))
           ELSE /\ warnings = 0
                /\ call.out.value = call.in.llm_response

\* C19: get_fallback_response always returns a response with is_fallback
\* true, rule 'FB' and an action of VALID_ACTIONS chosen by priority:
\* starboard if is_turning; else starboard if risk > 0.7 and distance < 300;
\* else stand on.  It never returns 'Give-way, turn to port'.
C19_FallbackByPriority ==
    Returned("get_fallback_response") =>
        /\ call.out.is_fallback /\ ~call.out.is_none
        /\ call.out.rule = "FB"
        /\ call.out.action \in VALID_ACTIONS
        /\ call.out.action # "Give-way, turn to port"
        /\ call.out.action =
              (IF call.in.is_turning THEN "Give-way, turn to starboard"
               ELSE IF call.in.risk * 10 > 7 * 100 /\ call.in.distance < 300
                    THEN "Give-way, turn to starboard"
               ELSE "Stand on, no action")

C19_Witness ==
    /\ Returned("get_fallback_response")
    /\ ~call.in.is_turning
    /\ call.in.risk > RiskThreshold /\ call.in.distance < DistanceThreshold
    /\ call.out.action = "Give-way, turn to starboard"
    /\ call.out.situation_type = "unknown"

\* C20 (as stated): the fallback response string formatted from a
\* get_fallback_response result parses, with parse_response, to a
\* ValidatedResponse with the same action.
C20_FallbackStringParses ==
    (Returned("parse_response") /\ call.in.fallback.is_fallback) =>
        /\ ~call.out.is_none
        /\ call.out.action = call.in.fallback.action

\* C18 (as stated): _initialize_provider, for any configured provider name,
\* returns the configured provider when it is available, otherwise the other
\* backend when that one is available, and None only when neither OpenAI nor
\* Claude is available; make_decision with provider None returns the string
\* 'No LLM provider available'.
C18_ProviderFallsBackToOther ==
    /\ Returned("_initialize_provider") =>
          /\ (StrLower(call.out.provider_name) = "openai" /\ call.in.env.openai)
                => call.out.provider = "openai"
          /\ (StrLower(call.out.provider_name) = "claude" /\ call.in.env.claude)
                => call.out.provider = "claude"
          /\ (call.in.env.openai \/ call.in.env.claude)
                => call.out.provider \in {"openai", "claude"}
          /\ call.out.provider = "openai" => call.in.env.openai
          /\ call.out.provider = "claude" => call.in.env.claude
    /\ (Returned("make_decision") /\ call.in.provider = None)
          => call.out = "No LLM provider available"

\* C16: run_simulation called with compare set and return_data false performs
\* exactly two inner runs in order, the baseline with llm = 0 and then the
\* LLM run with llm = 1, each with return_data true, so that no inner call
\* enters comparison mode again; on normal return args.llm and
\* args.no_animation hold the values they had before the call.
C16_ComparisonRunsTwice ==
    (call.fn = "run_simulation" /\ call.in.args.compare /\ ~call.in.return_data) =>
        LET both == <<[llm |-> 0, return_data |-> TRUE], [llm |-> 1, return_data |-> TRUE]>>
        IN  /\ ~call.reentered
            /\ Len(call.runs) <= Len(both)
            /\ call.runs = SubSeq(both, 1, Len(call.runs))
            /\ pc = "returned" =>
                  /\ call.runs = both
                  /\ args.llm = call.in.args.llm
                  /\ args.no_animation = call.in.args.no_animation
                  /\ args = call.in.args

C16_Witness ==
    /\ call.fn = "run_simulation" /\ call.in.args.compare /\ ~call.in.return_data
    /\ pc = "returned" /\ call.returned
    /\ Len(call.runs) = 2
    /\ call.in.args.llm = 0 /\ call.in.args.no_animation

\* C22: the finite-difference closing-geometry variant is never evaluated at
\* step 0, so its previous-step reads always use an index i-1 >= 0, never the
\* wrap-around index -1; at step 0 DCPA[0, j] and TCPA[0, j] keep the fill
\* value 1000 for every obstacle j.
C22_FiniteDifferenceSkipsStepZero ==
    (Started /\ i >= 1) =>
        \A j \in DOMAIN row.cpa_called :
            /\ row.cpa_called[j] <=> i - 1 >= 1
            /\ row.cpa_called[j] => (row.prev_index[j] >= 0 /\ row.prev_index[j] = i - 2)
            /\ i = 1 => (row.DCPA[j] = FillValue /\ row.TCPA[j] = FillValue)

C22_Witness ==
    /\ Started /\ i = 1
    /\ Len(row.DCPA) = 2
    /\ \A j \in DOMAIN row.DCPA :
          ~row.cpa_called[j] /\ row.DCPA[j] = FillValue /\ row.TCPA[j] = FillValue

(***************************************************************************)
(* Claims about two runs of the same scenario.                             *)
(***************************************************************************)
Baseline == results.returned[1]

InSecondRun == pc \in {"loop", "done"} /\ Len(results.returned) = 1

\* C21: the 'kdir' series returned by run_simulation(return_data=True) takes
\* values only in {-1, 0, +1} and is the sign of Kdir[i] * psi_oa[i] at each
\* step; in a baseline run (llm = 0) it is -1 at exactly the steps where the
\* avoidance bias is non-zero and 0 elsewhere, and never +1.
C21_ReturnedKdirIsControlSign ==
    \A n \in DOMAIN results.returned :
        LET d == results.returned[n]
        IN  \A k \in DOMAIN d.kdir :
               /\ d.kdir[k] \in {-1, 0, 1}
               /\ (d.kdir[k] = 1) <=> (d.locals.Kdir[k] * d.locals.arrays[k].psi_oa > 0)
               /\ (d.kdir[k] = -1) <=> (d.locals.Kdir[k] * d.locals.arrays[k].psi_oa < 0)
               /\ d.args.llm = 0 =>
                     /\ d.kdir[k] # 1
                     /\ (d.kdir[k] = -1) <=> (d.locals.arrays[k].psi_oa # 0)

C21_Witness ==
    /\ Len(results.returned) >= 1
    /\ Baseline.args.llm = 0
    /\ \E k \in DOMAIN Baseline.kdir : Baseline.kdir[k] = -1
    /\ \E k \in DOMAIN Baseline.kdir : Baseline.kdir[k] = 0

\* C23 (as stated): for the same case, sim_time and dt with llm = 0, the
\* animated and the non-animated loop bodies assign the same values to the
\* same entries at every step, step 0 included: vessel state, psi_wp, psi_oa,
\* psi_p, obstacle positions, DCPA, TCPA, Distance_ob and Risk.
C23_AnimatedEqualsPlain ==
    (InSecondRun /\ i >= 1 /\ args.llm = 0
        /\ args.no_animation # Baseline.args.no_animation) =>
        LET other == Baseline.locals.arrays[i]
        IN  /\ row.x = other.x /\ row.y = other.y /\ row.psi = other.psi
            /\ row.psi_wp = other.psi_wp /\ row.psi_oa = other.psi_oa
            /\ row.psi_p = other.psi_p
            /\ row.Xobs = other.Xobs /\ row.Yobs = other.Yobs
            /\ row.DCPA = other.DCPA /\ row.TCPA = other.TCPA
            /\ row.Distance_ob = other.Distance_ob
            /\ row.Risk = other.Risk
            /\ row.risk_called = other.risk_called

====
